---- MODULE Spec2Model ----
(***************************************************************************)
(* Streaming agent-interaction client of the bidding assistant front end:  *)
(* the chat store (stores/chat.ts), the chat view's send cycle             *)
(* (views/ChatView.vue: handleSend, chatWithStream, handleFileChange) and  *)
(* the trace panel's clear button (clearTrace of the application shell).   *)
(*                                                                         *)
(* Text is modelled as TLA+ strings, one element per character.  The wire  *)
(* carries bytes; a multi-byte UTF-8 character is abbreviated to two wire  *)
(* bytes, the lead byte "^" and one continuation byte, and the decoded     *)
(* character is written with an upper-case letter: the wire bytes "^y^j"   *)
(* decode to "YJ", which stands for the first trigger keyword of           *)
(* ChatView.vue:294, and "^h^t" to "HT", the second one.                   *)
(***************************************************************************)
EXTENDS Integers, Sequences, FiniteSets, TLC

\* ------------------------------------------------------------------------
\* Bounds of the model: send cycles, uploads, and both together
\* ------------------------------------------------------------------------
MaxSends == 2
MaxUploads == 1
MaxOps == 3
\* length of the stores updateLastAssistantMessage is applied to
MaxStoreLen == 3
\* last reading of the clock
MaxClock == 2

\* ------------------------------------------------------------------------
\* JavaScript string primitives used by chatWithStream
\* ------------------------------------------------------------------------
Undef == "<undefined>"

Slice(s, n) == SubSeq(s, n + 1, Len(s))

StartsWith(s, p) == Len(s) >= Len(p) /\ SubSeq(s, 1, Len(p)) = p

IsSpace(ch) == ch \in {" ", "\r", "\t", "\n"}

RECURSIVE TrimStart(_)
TrimStart(s) ==
  IF Len(s) > 0 /\ IsSpace(SubSeq(s, 1, 1)) THEN TrimStart(Slice(s, 1)) ELSE s

RECURSIVE TrimEnd(_)
TrimEnd(s) ==
  IF Len(s) > 0 /\ IsSpace(SubSeq(s, Len(s), Len(s)))
  THEN TrimEnd(SubSeq(s, 1, Len(s) - 1)) ELSE s

Trim(s) == TrimEnd(TrimStart(s))

Includes(s, sub) ==
  \E i \in 1..(Len(s) - Len(sub) + 1) : SubSeq(s, i, i + Len(sub) - 1) = sub

\* buffer.split('\n'): always at least one element, the last one being the
\* text after the last line break.  SplitFrom cuts s, from index from on, at
\* the line breaks nl that are still ahead.
RECURSIVE SplitFrom(_, _, _)
SplitFrom(s, from, nl) ==
  IF nl = {} THEN <<SubSeq(s, from, Len(s))>>
  ELSE LET i == CHOOSE j \in nl : \A k \in nl : j <= k
       IN <<SubSeq(s, from, i - 1)>> \o SplitFrom(s, i + 1, nl \ {i})

SplitLines(s) ==
  SplitFrom(s, 1, {i \in 1..Len(s) : SubSeq(s, i, i) = "\n"})

Last(q) == q[Len(q)]
\* the lines without the pop: the unfinished last line is processed too
FrontKeepsLast(q) == q

Front(q) == SubSeq(q, 1, Len(q) - 1)

\* ------------------------------------------------------------------------
\* TextDecoder.decode(value, {stream: true})
\* ------------------------------------------------------------------------
LeadByte == "^"

DecodePair(b) ==
  CASE b = "y" -> "Y"
    [] b = "j" -> "J"
    [] b = "h" -> "H"
    [] b = "t" -> "T"
    [] OTHER -> "?"

\* The decoded text of bytes: single-byte characters decode to themselves;
\* a lead byte and its continuation byte decode to the character of the
\* pair; a lead byte followed by another lead byte is U+FFFD ("?"); a lead
\* byte that ends the input contributes nothing yet.
RECURSIVE DecodeText(_)
DecodeText(bytes) ==
  LET leads == {i \in 1..Len(bytes) : SubSeq(bytes, i, i) = LeadByte} IN
  IF leads = {} THEN bytes
  ELSE LET i == CHOOSE j \in leads : \A k \in leads : j <= k
           before == SubSeq(bytes, 1, i - 1)
       IN IF i = Len(bytes) THEN before
          ELSE IF SubSeq(bytes, i + 1, i + 1) = LeadByte
          THEN before \o "?" \o DecodeText(Slice(bytes, i))
          ELSE before \o DecodePair(SubSeq(bytes, i + 1, i + 1))
                 \o DecodeText(Slice(bytes, i + 1))

\* bytes -> [text, pending]: an incomplete trailing sequence is kept back
DecodeBytes(bytes) ==
  [text |-> DecodeText(bytes),
   pending |-> IF Len(bytes) > 0 /\ SubSeq(bytes, Len(bytes), Len(bytes)) = LeadByte
               THEN LeadByte ELSE ""]

Decode(pending, chunk) == DecodeBytes(pending \o chunk)

\* ------------------------------------------------------------------------
\* JSON.parse on the payload texts the backend can send.  A text outside the
\* table is not JSON: every proper fragment of one of these object texts is
\* malformed, as is MalformedText.
\* ------------------------------------------------------------------------
ThoughtText == "{\"thought\":\"t\"}"
CallText == "{\"tool\":\"s\",\"params\":{}}"
ResultOkText == "{\"tool\":\"s\",\"success\":true}"
ResultFailText == "{\"tool\":\"s\",\"success\":false,\"error\":\"x\"}"
AnswerText == "{\"answer\":\"Hi\"}"
AnswerKwText == "{\"answer\":\"YJ\"}"
AnswerEmptyText == "{\"answer\":\"\"}"
ErrorText == "{\"error\":\"boom\"}"
ErrorKwText == "{\"error\":\"HT\"}"
EmptyObjText == "{}"
NullText == "null"
MalformedText == "{oops"

\* The parsed value: an object (its properties: strings, with the JSON
\* booleans written "true"/"false"), the JSON null, or a SyntaxError thrown
Obj(o) == [kind |-> "object", obj |-> o]

JSONParse(s) ==
  CASE s = ThoughtText -> Obj([thought |-> "t"])
    [] s = CallText -> Obj([tool |-> "s", params |-> "{}"])
    [] s = ResultOkText -> Obj([tool |-> "s", success |-> "true"])
    [] s = ResultFailText ->
         Obj([tool |-> "s", success |-> "false", error |-> "x"])
    [] s = AnswerText -> Obj([answer |-> "Hi"])
    [] s = AnswerKwText -> Obj([answer |-> "YJ"])
    [] s = AnswerEmptyText -> Obj([answer |-> ""])
    [] s = ErrorText -> Obj([error |-> "boom"])
    [] s = ErrorKwText -> Obj([error |-> "HT"])
    [] s = EmptyObjText -> Obj([none |-> Undef])
    [] s = NullText -> [kind |-> "null", obj |-> [none |-> Undef]]
    [] OTHER -> [kind |-> "error", obj |-> [none |-> Undef]]

\* data.f: a missing property reads as undefined
Get(data, f) == IF f \in DOMAIN data.obj THEN data.obj[f] ELSE Undef

\* string concatenation with a value that may be undefined
Str(v) == IF v = Undef THEN "undefined" ELSE v

\* JavaScript truthiness of a string, "true"/"false" or undefined value
Truthy(v) == v \notin {Undef, "", "false"}

\* an optional array-valued property (toolCalls, performances)
Absent == [present |-> FALSE, val |-> <<>>]
Present(v) == [present |-> TRUE, val |-> v]

\* ------------------------------------------------------------------------
\* User-visible texts (ASCII renderings of the literals in ChatView.vue)
\* ------------------------------------------------------------------------
SendFailedPrefix == "Sorry, an error occurred: "
UnknownErrorText == "unknown error"
ExecFailedPrefix == "Sorry, execution failed: "
RequestFailedText == "request failed"
NoBodyText == "cannot get response stream"
NetworkErrorText == "Failed to fetch"
SyntaxErrorText == "Unexpected token in JSON"
TypeErrorText == "Cannot read properties of null"
KeywordPerformance == "YJ"
KeywordContract == "HT"

\* ------------------------------------------------------------------------
\* Chat store operations (stores/chat.ts)
\* ------------------------------------------------------------------------
MessageId(role, clock) == <<role, clock>>

\* a user message that is not stored
addUserMessageDropped(msgs, content, clock) == msgs

addUserMessage(msgs, content, clock) ==
  Append(msgs, [id |-> MessageId("user", clock), role |-> "user",
                content |-> content, timestamp |-> clock,
                toolCalls |-> Absent, performances |-> Absent])

\* an assistant message written over the last message of the store
addAssistantMessageOverLast(msgs, content, tcalls, perfs, clock) ==
  IF msgs = <<>> THEN msgs
  ELSE [msgs EXCEPT ![Len(msgs)] =
          [id |-> <<"assistant", clock>>, role |-> "assistant",
           content |-> content, timestamp |-> clock,
           toolCalls |-> tcalls, performances |-> perfs]]

addAssistantMessage(msgs, content, tcalls, perfs, clock) ==
  Append(msgs, [id |-> MessageId("assistant", clock), role |-> "assistant",
                content |-> content, timestamp |-> clock,
                toolCalls |-> tcalls, performances |-> perfs])

\* [...messages.value].reverse()
Reverse(q) == [i \in 1..Len(q) |-> q[Len(q) + 1 - i]]

\* Array.prototype.find: the index of the first element with the role, 0
\* when there is none
FindRole(q, role) ==
  LET hits == {i \in 1..Len(q) : q[i].role = role}
  IN IF hits = {} THEN 0 ELSE CHOOSE i \in hits : \A j \in hits : i <= j

\* Object.assign(target, updates)
Assign(target, updates) ==
  [f \in DOMAIN target \cup DOMAIN updates |->
     IF f \in DOMAIN updates THEN updates[f] ELSE target[f]]

\* an update of the first assistant message instead of the last
updateFirstAssistantMessage(msgs, updates) ==
  LET i == FindRole(msgs, "assistant")
  IN IF i = 0 THEN msgs ELSE [msgs EXCEPT ![i] = Assign(@, updates)]

\* updateLastAssistantMessage (chat.ts:92-97): the message found in the
\* reversed copy is the object held by the store, which is updated in place
updateLastAssistantMessage(msgs, updates) ==
  LET j == FindRole(Reverse(msgs), "assistant")
  IN IF j = 0 THEN msgs
     ELSE [msgs EXCEPT ![Len(msgs) + 1 - j] = Assign(@, updates)]

\* a step put in front of the log
addStepInFront(steps, step) == <<step>> \o steps

addStep(steps, step) == Append(steps, step)

clearSteps == <<>>

\* step numbers counted from zero
NextStepNoZeroBased(steps) == Len(steps)

\* chatStore.currentSteps.length + 1, the number given to an appended step
NextStepNo(steps) == Len(steps) + 1

StepRecord(n, state, thought, toolName, toolParams, toolResult, error) ==
  [step |-> n, state |-> state, thought |-> thought, toolName |-> toolName,
   toolParams |-> toolParams, toolResult |-> toolResult, error |-> error]

\* ------------------------------------------------------------------------
\* chatWithStream: the body of the for loop over the complete lines of one
\* network read.  acc carries the locals of chatWithStream (eventType,
\* finalAnswer, toolCalls), the store fields the loop writes (status, steps),
\* the exception thrown ("" while none) and two observations: the lines
\* classified, each with the event type in force once it is classified, and
\* the frames handed to the switch.
\* ------------------------------------------------------------------------
\* an exception that is swallowed inside the loop
ThrowIgnored(acc, message) == acc

Throw(acc, message) == [acc EXCEPT !.thrown = message]

\* case 'thinking' (ChatView.vue:242-249)
OnThinking(acc, data) ==
  LET a == [acc EXCEPT !.status = "thinking"] IN
  IF data.kind = "null" THEN Throw(a, TypeErrorText)
  ELSE [a EXCEPT !.steps = addStep(a.steps,
          StepRecord(NextStepNo(a.steps), "thinking", Get(data, "thought"),
                     Undef, Undef, Undef, Undef))]

\* a tool call that leaves the status alone
OnToolCallKeepsStatus(acc, data) ==
  IF data.kind = "null" THEN Throw(acc, TypeErrorText)
  ELSE [acc EXCEPT !.steps = addStep(acc.steps,
          StepRecord(NextStepNo(acc.steps), "executing", Undef,
                     Get(data, "tool"), Get(data, "params"), Undef, Undef))]

\* case 'tool_call' (ChatView.vue:251-259)
OnToolCall(acc, data) ==
  LET a == [acc EXCEPT !.status = "executing"] IN
  IF data.kind = "null" THEN Throw(a, TypeErrorText)
  ELSE [a EXCEPT !.steps = addStep(a.steps,
          StepRecord(NextStepNo(a.steps), "executing", Undef,
                     Get(data, "tool"), Get(data, "params"), Undef, Undef))]

\* a tool result that also ends the turn
OnToolResultEndsTurn(acc, data) ==
  IF data.kind = "null" THEN Throw(acc, TypeErrorText)
  ELSE [acc EXCEPT
          !.status = IF Truthy(Get(data, "success")) THEN "done" ELSE "error",
          !.toolCalls = Append(acc.toolCalls,
             [tool |-> Get(data, "tool"), params |-> "{}",
              success |-> Get(data, "success")]),
          !.steps = addStep(acc.steps,
             StepRecord(NextStepNo(acc.steps),
                IF Truthy(Get(data, "success")) THEN "done" ELSE "error",
                Undef, Get(data, "tool"), Undef,
                Get(data, "result"), Get(data, "error")))]

\* case 'tool_result' (ChatView.vue:261-274)
OnToolResult(acc, data) ==
  IF data.kind = "null" THEN Throw(acc, TypeErrorText)
  ELSE [acc EXCEPT
          !.toolCalls = Append(acc.toolCalls,
             [tool |-> Get(data, "tool"), params |-> "{}",
              success |-> Get(data, "success")]),
          !.steps = addStep(acc.steps,
             StepRecord(NextStepNo(acc.steps),
                IF Truthy(Get(data, "success")) THEN "done" ELSE "error",
                Undef, Get(data, "tool"), Undef,
                Get(data, "result"), Get(data, "error")))]

\* an answer that is also logged as a step
OnAnswerLogsStep(acc, data) ==
  IF data.kind = "null" THEN Throw(acc, TypeErrorText)
  ELSE [acc EXCEPT !.finalAnswer = Get(data, "answer"), !.status = "done",
                   !.steps = addStep(acc.steps,
                      StepRecord(NextStepNo(acc.steps), "done", Undef, Undef,
                                 Undef, Undef, Undef))]

\* case 'answer' (ChatView.vue:276-279)
OnAnswer(acc, data) ==
  IF data.kind = "null" THEN Throw(acc, TypeErrorText)
  ELSE [acc EXCEPT !.finalAnswer = Get(data, "answer"), !.status = "done"]

\* case 'error' (ChatView.vue:281-284)
OnError(acc, data) ==
  LET a == [acc EXCEPT !.status = "error"] IN
  IF data.kind = "null" THEN Throw(a, TypeErrorText)
  ELSE [a EXCEPT !.finalAnswer = ExecFailedPrefix \o Str(Get(data, "error"))]

\* a switch whose default case fails the stream
InterpretDefaultThrows(acc, data) ==
  CASE acc.eventType = "thinking" -> OnThinking(acc, data)
    [] acc.eventType = "tool_call" -> OnToolCall(acc, data)
    [] acc.eventType = "tool_result" -> OnToolResult(acc, data)
    [] acc.eventType = "answer" -> OnAnswer(acc, data)
    [] acc.eventType = "error" -> OnError(acc, data)
    [] OTHER -> Throw(acc, "unknown event type")

\* switch (eventType) (ChatView.vue:241-285): no default case
Interpret(acc, data) ==
  CASE acc.eventType = "thinking" -> OnThinking(acc, data)
    [] acc.eventType = "tool_call" -> OnToolCall(acc, data)
    [] acc.eventType = "tool_result" -> OnToolResult(acc, data)
    [] acc.eventType = "answer" -> OnAnswer(acc, data)
    [] acc.eventType = "error" -> OnError(acc, data)
    [] OTHER -> acc

ProcessLine(acc, line) ==
  IF StartsWith(line, "event:")
  THEN LET t == Trim(Slice(line, 6)) IN
       [acc EXCEPT !.eventType = t,
                   !.classified = Append(@, [line |-> line, eventType |-> t])]
  ELSE LET a == [acc EXCEPT !.classified =
                   Append(@, [line |-> line, eventType |-> acc.eventType])]
       IN IF StartsWith(line, "data:")
          THEN LET text == Trim(Slice(line, 5))
                   data == JSONParse(text)
               IN IF data.kind = "error" THEN Throw(a, SyntaxErrorText)
                  ELSE Interpret(
                         [a EXCEPT !.frames = Append(@,
                            [eventType |-> acc.eventType, payload |-> text])],
                         data)
          ELSE a

RECURSIVE ProcessLines(_, _)
ProcessLines(acc, lines) ==
  IF lines = <<>> \/ acc.thrown # "" THEN acc
  ELSE ProcessLines(ProcessLine(acc, Head(lines)), Tail(lines))

\* a read loop that forgets the unfinished line
ResidualLost(lines) == ""

\* lines.pop() || '': the text kept for the next read
Residual(lines) == Last(lines)

\* ------------------------------------------------------------------------
\* The environment: what the user types, what the backend streams, how the
\* search and upload services answer
\* ------------------------------------------------------------------------
Inputs == {"", " ", "q "}

Frame(ev, payload) == "event: " \o ev \o "\ndata: " \o payload \o "\n\n"

StreamAnswer == Frame("thinking", ThoughtText) \o Frame("answer", AnswerText)
StreamTools == Frame("tool_call", CallText) \o Frame("tool_result", ResultFailText)
StreamError == Frame("error", ErrorText)
StreamKeyword == Frame("answer", "{\"answer\":\"^y^j\"}")
StreamErrorKeyword == Frame("error", "{\"error\":\"^h^t\"}")
StreamEmptyAnswer == Frame("answer", AnswerEmptyText)
StreamLate ==
  Frame("thinking", ThoughtText) \o Frame("answer", AnswerText)
    \o Frame("tool_call", CallText)
StreamToolsKeyword ==
  Frame("tool_result", ResultOkText)
    \o Frame("answer", "{\"answer\":\"^y^j\"}")
StreamMalformed == Frame("thinking", ThoughtText) \o Frame("answer", MalformedText)
StreamTwoData ==
  "event: thinking\ndata: " \o ThoughtText \o "\ndata: " \o ThoughtText \o "\n\n"
StreamUnknown ==
  "data: {}\n\n" \o Frame("ping", EmptyObjText) \o Frame("thinking", ThoughtText)
StreamResidue == "event: answer\ndata: " \o AnswerText
StreamAnswerThenMalformed ==
  Frame("tool_result", ResultOkText) \o Frame("answer", AnswerText)
    \o "data: " \o MalformedText \o "\n"
StreamErrorThenMalformed ==
  Frame("error", ErrorText) \o "data: " \o MalformedText \o "\n"

\* streams of the session specification and of the single-turn specification
Streams == {StreamError, StreamToolsKeyword}
TurnStreams == {StreamAnswer, StreamTools, StreamError, StreamKeyword,
                StreamErrorKeyword, StreamEmptyAnswer,
                StreamLate, StreamToolsKeyword, StreamMalformed,
                StreamTwoData, StreamUnknown, StreamResidue,
                StreamAnswerThenMalformed, StreamErrorThenMalformed}

\* sizes of the next chunk reader.read() may deliver from the bytes w still
\* on the wire: any size for a single turn; in the session specification the
\* rest of the stream or a cut right after the blank line that ends a frame
AnyCuts(w) == 1..Len(w)
FrameCuts(w) ==
  {k \in 1..Len(w) : k = Len(w) \/ (k > 1 /\ SubSeq(w, k - 1, k) = "\n\n")}

\* answers of the services, for a single turn and for the session
FetchOutcomes == {"ok", "notok", "nobody", "reject", "silent"}
LookupOutcomes == {"results", "empty", "missing", "reject"}
SessionFetchOutcomes == {"ok", "notok"}
SessionLookupOutcomes == {"results", "reject"}
UploadOutcomes == {"success", "failure", "reject"}

SearchResults == <<[id |-> 1, score |-> 95], [id |-> 2, score |-> 80]>>

UploadOkText == "contract parsed"
UploadFailedPrefix == "parse failed: "
UploadErrorPrefix == "upload failed: "
UploadMessageText == "bad file"
UploadPrefix == "upload file: "
Files == {"c.pdf"}

\* ------------------------------------------------------------------------
\* State
\* ------------------------------------------------------------------------
VARIABLES
  messages,      \* chat.ts:41
  agentStatus,   \* chat.ts:44
  currentSteps,  \* chat.ts:47
  isLoading,     \* chat.ts:50
  inputText,     \* ChatView.vue:143
  now,           \* Date.now()
  nSends,        \* number of send cycles started
  cycle,         \* the locals of each call of handleSend/chatWithStream
  nUploads,      \* number of uploads started
  upload,        \* the position of each call of handleFileChange
  refused        \* some call of handleSend has returned at line 176

vars == <<messages, agentStatus, currentSteps, isLoading, inputText, now,
          nSends, cycle, nUploads, upload, refused>>

Cycles == 1..MaxSends
Uploads == 1..MaxUploads

NewCycle == [pc |-> "idle", query |-> "", stream |-> "", wire |-> "",
             pending |-> "", buffer |-> "", finalAnswer |-> "",
             toolCalls |-> <<>>, classified |-> <<>>, frames |-> <<>>,
             reassembled |-> FALSE, lookup |-> "none", lookups |-> 0,
             lookupQuery |-> "", caught |-> ""]

Init ==
  /\ messages = <<>>
  /\ agentStatus = "idle"
  /\ currentSteps = <<>>
  /\ isLoading = FALSE
  /\ inputText = ""
  /\ now = 0
  /\ nSends = 0
  /\ cycle = [c \in Cycles |-> NewCycle]
  /\ nUploads = 0
  /\ upload = [u \in Uploads |-> "idle"]
  /\ refused = FALSE

InFlight(c) == cycle[c].pc \in {"fetch", "read", "lookup"}

\* ------------------------------------------------------------------------
\* handleSend (ChatView.vue:174-199)
\* ------------------------------------------------------------------------
\* a send that only looks at the text
SendRefusedIgnoresLoading(text, loading) == text = ""

\* the test of line 176: the call returns without doing anything
SendRefused(text, loading) == text = "" \/ loading

\* a catch block that puts the status back to idle
CatchSendRestoresIdle(c, message, status, steps, loc) ==
  /\ messages' = addAssistantMessage(messages,
        SendFailedPrefix \o (IF message = "" THEN UnknownErrorText
                                             ELSE message),
        Absent, Absent, now)
  /\ agentStatus' = "idle"
  /\ currentSteps' = steps
  /\ isLoading' = FALSE
  /\ cycle' = [cycle EXCEPT ![c] = [loc EXCEPT !.pc = "caught",
                                               !.caught = message]]

\* a catch block that first appends the answer recorded before the failure
CatchSendAppendsAnswer(c, message, status, steps, loc) ==
  /\ messages' = addAssistantMessage(
        IF Truthy(loc.finalAnswer)
        THEN addAssistantMessage(messages, loc.finalAnswer,
               IF loc.toolCalls = <<>> THEN Absent ELSE Present(loc.toolCalls),
               Absent, now)
        ELSE messages,
        SendFailedPrefix \o (IF message = "" THEN UnknownErrorText
                                             ELSE message),
        Absent, Absent, now)
  /\ agentStatus' = "error"
  /\ currentSteps' = steps
  /\ isLoading' = FALSE
  /\ cycle' = [cycle EXCEPT ![c] = [loc EXCEPT !.pc = "caught",
                                               !.caught = message]]

\* the catch and finally blocks of handleSend, run when chatWithStream throws
CatchSend(c, message, status, steps, loc) ==
  /\ messages' = addAssistantMessage(messages,
        SendFailedPrefix \o (IF message = "" THEN UnknownErrorText
                                             ELSE message),
        Absent, Absent, now)
  /\ agentStatus' = "error"
  /\ currentSteps' = steps
  /\ isLoading' = FALSE
  /\ cycle' = [cycle EXCEPT ![c] = [loc EXCEPT !.pc = "caught",
                                               !.caught = message]]

\* a return that leaves the loading flag as it is
ReturnSendKeepsLoading(c, loc) ==
  /\ isLoading' = isLoading
  /\ cycle' = [cycle EXCEPT ![c] = [loc EXCEPT !.pc = "returned"]]

\* the finally block alone, run when chatWithStream returns
ReturnSend(c, loc) ==
  /\ isLoading' = FALSE
  /\ cycle' = [cycle EXCEPT ![c] = [loc EXCEPT !.pc = "returned"]]

TypeInput(t) ==
  /\ ~isLoading
  /\ inputText # t
  /\ inputText' = t
  /\ UNCHANGED <<messages, agentStatus, currentSteps, isLoading, now, nSends,
                 cycle, nUploads, upload, refused>>

HandleSend ==
  LET text == Trim(inputText) IN
  IF SendRefused(text, isLoading)
  THEN /\ refused' = TRUE
       /\ UNCHANGED <<messages, agentStatus, currentSteps, isLoading,
                      inputText, now, nSends, cycle, nUploads, upload>>
  ELSE /\ nSends < MaxSends
       /\ nSends + nUploads < MaxOps
       /\ messages' = addUserMessage(messages, text, now)
       /\ inputText' = ""
       /\ isLoading' = TRUE
       /\ agentStatus' = "thinking"
       /\ currentSteps' = clearSteps
       /\ nSends' = nSends + 1
       /\ cycle' = [cycle EXCEPT ![nSends + 1] =
                      [NewCycle EXCEPT !.pc = "fetch", !.query = text]]
       /\ UNCHANGED <<now, nUploads, upload, refused>>

\* ------------------------------------------------------------------------
\* chatWithStream (ChatView.vue:202-319), one action per await
\* ------------------------------------------------------------------------
\* await fetch(...) and the two checks that follow it
FetchResponds(c, outcome, s) ==
  /\ cycle[c].pc = "fetch"
  /\ IF outcome = "ok"
     THEN /\ cycle' = [cycle EXCEPT ![c].pc = "read", ![c].stream = s,
                                    ![c].wire = s]
          /\ UNCHANGED <<messages, agentStatus, currentSteps, isLoading>>
     ELSE CatchSend(c,
            CASE outcome = "notok" -> RequestFailedText
              [] outcome = "nobody" -> NoBodyText
              [] outcome = "reject" -> NetworkErrorText
              [] OTHER -> "",
            agentStatus, currentSteps, cycle[c])
  /\ UNCHANGED <<inputText, now, nSends, nUploads, upload, refused>>

\* await reader.read() delivering the next k bytes, and the body of the
\* while loop for them
ReadChunk(c, k) ==
  /\ cycle[c].pc = "read"
  /\ k \in 1..Len(cycle[c].wire)
  /\ LET me == cycle[c]
         d == Decode(me.pending, SubSeq(me.wire, 1, k))
         lines == SplitLines(me.buffer \o d.text)
         acc == ProcessLines(
                  [eventType |-> "", status |-> agentStatus,
                   steps |-> currentSteps, toolCalls |-> me.toolCalls,
                   finalAnswer |-> me.finalAnswer,
                   classified |-> me.classified, frames |-> me.frames,
                   thrown |-> ""],
                  Front(lines))
         loc == [me EXCEPT !.wire = Slice(me.wire, k),
                           !.pending = d.pending,
                           !.buffer = Residual(lines),
                           !.toolCalls = acc.toolCalls,
                           !.finalAnswer = acc.finalAnswer,
                           !.classified = acc.classified,
                           !.frames = acc.frames,
                           !.reassembled =
                              @ \/ (me.buffer # "" /\ Len(lines) > 1)]
     IN IF acc.thrown # ""
        THEN CatchSend(c, acc.thrown, acc.status, acc.steps, loc)
        ELSE /\ agentStatus' = acc.status
             /\ currentSteps' = acc.steps
             /\ cycle' = [cycle EXCEPT ![c] = loc]
             /\ UNCHANGED <<messages, isLoading>>
  /\ UNCHANGED <<inputText, now, nSends, nUploads, upload, refused>>

\* await reader.read() rejecting: the connection broke
ReadFails(c) ==
  /\ cycle[c].pc = "read"
  /\ CatchSend(c, NetworkErrorText, agentStatus, currentSteps, cycle[c])
  /\ UNCHANGED <<inputText, now, nSends, nUploads, upload, refused>>

\* an assistant message for every stream that ends
HasFinalAnswerAlways(fa) == TRUE

\* if (finalAnswer) of line 291
HasFinalAnswer(fa) == Truthy(fa)

\* the test of line 294
WantsLookup(fa) ==
  Includes(fa, KeywordPerformance) \/ Includes(fa, KeywordContract)

\* a message that always carries the tool-call list, also when it is empty
FinalizeAlwaysToolCalls(c, perfs, loc) ==
  /\ messages' = addAssistantMessage(messages, loc.finalAnswer,
        Present(loc.toolCalls), perfs, now)
  /\ ReturnSend(c, loc)
  /\ UNCHANGED <<agentStatus, currentSteps>>

\* lines 308-317 and the return to handleSend
Finalize(c, perfs, loc) ==
  /\ messages' = addAssistantMessage(messages, loc.finalAnswer,
        IF Len(loc.toolCalls) > 0 THEN Present(loc.toolCalls) ELSE Absent,
        perfs, now)
  /\ ReturnSend(c, loc)
  /\ UNCHANGED <<agentStatus, currentSteps>>

\* await reader.read() reporting done, and the code after the loop up to
\* the next await
ReadDone(c) ==
  /\ cycle[c].pc = "read"
  /\ cycle[c].wire = ""
  /\ IF HasFinalAnswer(cycle[c].finalAnswer)
     THEN IF WantsLookup(cycle[c].finalAnswer)
          THEN /\ cycle' = [cycle EXCEPT ![c].pc = "lookup",
                                         ![c].lookup = "pending",
                                         ![c].lookups = @ + 1,
                                         ![c].lookupQuery = cycle[c].query]
               /\ UNCHANGED <<messages, agentStatus, currentSteps, isLoading>>
          ELSE Finalize(c, Absent, cycle[c])
     ELSE /\ ReturnSend(c, cycle[c])
          /\ UNCHANGED <<messages, agentStatus, currentSteps>>
  /\ UNCHANGED <<inputText, now, nSends, nUploads, upload, refused>>

\* matches attached whatever the search answered
LookupPerformancesLeaky(outcome) == Present(SearchResults)

\* what lines 295-305 leave in performances for each answer of the search
LookupPerformances(outcome) ==
  IF outcome = "results" THEN Present(SearchResults) ELSE Absent

\* await semanticSearchPerformances(...) settling
LookupCompletes(c, outcome) ==
  /\ cycle[c].pc = "lookup"
  /\ Finalize(c, LookupPerformances(outcome),
              [cycle[c] EXCEPT !.lookup = outcome])
  /\ UNCHANGED <<inputText, now, nSends, nUploads, upload, refused>>

\* ------------------------------------------------------------------------
\* handleFileChange (ChatView.vue:327-375)
\* ------------------------------------------------------------------------
NoFile == ""

HandleFileChange(file) ==
  IF file = NoFile
  THEN UNCHANGED vars
  ELSE /\ nUploads < MaxUploads
       /\ nSends + nUploads < MaxOps
       /\ messages' = addUserMessage(messages, UploadPrefix \o file, now)
       /\ isLoading' = TRUE
       /\ agentStatus' = "executing"
       /\ nUploads' = nUploads + 1
       /\ upload' = [upload EXCEPT ![nUploads + 1] = "uploading"]
       /\ UNCHANGED <<currentSteps, inputText, now, nSends, cycle, refused>>

UploadCompletes(u, outcome) ==
  /\ upload[u] = "uploading"
  /\ messages' = addAssistantMessage(messages,
        CASE outcome = "success" -> UploadOkText
          [] outcome = "failure" -> UploadFailedPrefix \o UploadMessageText
          [] OTHER -> UploadErrorPrefix \o NetworkErrorText,
        Absent, Absent, now)
  /\ agentStatus' = IF outcome = "success" THEN "done" ELSE "error"
  /\ isLoading' = FALSE
  /\ upload' = [upload EXCEPT ![u] = "finished"]
  /\ UNCHANGED <<currentSteps, inputText, now, nSends, cycle, nUploads,
                 refused>>

\* ------------------------------------------------------------------------
\* clearTrace (application shell, lines 221-223)
\* ------------------------------------------------------------------------
ClearTrace ==
  /\ currentSteps' = clearSteps
  /\ UNCHANGED <<messages, agentStatus, isLoading, inputText, now, nSends,
                 cycle, nUploads, upload, refused>>

\* ------------------------------------------------------------------------
\* Specifications
\* ------------------------------------------------------------------------
\* the session: sends, uploads and trace clears interleaved
Next ==
  \/ \E t \in Inputs : TypeInput(t)
  \/ HandleSend
  \/ \E c \in Cycles, o \in SessionFetchOutcomes, s \in Streams :
       FetchResponds(c, o, s)
  \/ \E c \in Cycles : \E k \in FrameCuts(cycle[c].wire) : ReadChunk(c, k)
  \/ \E c \in Cycles : ReadDone(c)
  \/ \E c \in Cycles, o \in SessionLookupOutcomes : LookupCompletes(c, o)
  \/ \E f \in Files \cup {NoFile} : HandleFileChange(f)
  \/ \E u \in Uploads, o \in UploadOutcomes : UploadCompletes(u, o)
  \/ ClearTrace

Spec == Init /\ [][Next]_vars

\* one send cycle alone, its stream cut into chunks of every size
NextTurn ==
  \/ \E t \in Inputs : TypeInput(t)
  \/ nSends = 0 /\ HandleSend
  \/ \E o \in FetchOutcomes, s \in TurnStreams : FetchResponds(1, o, s)
  \/ \E k \in AnyCuts(cycle[1].wire) : ReadChunk(1, k)
  \/ ReadFails(1)
  \/ ReadDone(1)
  \/ \E o \in LookupOutcomes : LookupCompletes(1, o)

SpecTurn == Init /\ [][NextTurn]_vars

\* the clock read by Date.now() advances
Tick ==
  /\ now < MaxClock
  /\ now' = now + 1
  /\ UNCHANGED <<messages, agentStatus, currentSteps, isLoading, inputText,
                 nSends, cycle, nUploads, upload, refused>>

\* sends and uploads while the clock advances, the frames of a stream
\* arriving one read each
ClockStreams == {StreamError}

NextClock ==
  \/ Tick
  \/ \E t \in Inputs : TypeInput(t)
  \/ HandleSend
  \/ \E c \in Cycles, o \in SessionFetchOutcomes, s \in ClockStreams :
       FetchResponds(c, o, s)
  \/ \E c \in Cycles : \E k \in FrameCuts(cycle[c].wire) : ReadChunk(c, k)
  \/ \E c \in Cycles : ReadDone(c)
  \/ \E f \in Files : HandleFileChange(f)
  \/ \E u \in Uploads, o \in UploadOutcomes : UploadCompletes(u, o)

SpecClock == Init /\ [][NextClock]_vars

\* updateLastAssistantMessage applied to stores of up to MaxStoreLen messages
SampleContents == {"a", "b"}

RECURSIVE Stores(_)
Stores(n) ==
  IF n = 0 THEN {<<>>}
  ELSE LET shorter == Stores(n - 1)
           longest == {m \in shorter : Len(m) = n - 1}
       IN shorter
            \cup {addUserMessage(m, c, 0) : m \in longest, c \in SampleContents}
            \cup {addAssistantMessage(m, c, Absent, Absent, 0) :
                     m \in longest, c \in SampleContents}

Updates ==
  {[content |-> "c"],
   [toolCalls |-> Present(<<[tool |-> "s", params |-> "{}", success |-> "true"]>>)],
   [content |-> "c", performances |-> Present(SearchResults)]}

InitStore ==
  /\ messages \in Stores(MaxStoreLen)
  /\ agentStatus = "idle"
  /\ currentSteps = <<>>
  /\ isLoading = FALSE
  /\ inputText = ""
  /\ now = 0
  /\ nSends = 0
  /\ cycle = [c \in Cycles |-> NewCycle]
  /\ nUploads = 0
  /\ upload = [u \in Uploads |-> "idle"]
  /\ refused = FALSE

UpdateLastAssistant(u) ==
  /\ messages' = updateLastAssistantMessage(messages, u)
  /\ UNCHANGED <<agentStatus, currentSteps, isLoading, inputText, now, nSends,
                 cycle, nUploads, upload, refused>>

NextStore == \E u \in Updates : UpdateLastAssistant(u)

SpecStore == InitStore /\ [][NextStore]_vars

\* ------------------------------------------------------------------------
\* Properties of the framing (single-turn specification)
\* ------------------------------------------------------------------------
\* the stream of cycle c has been delivered completely
Delivered(c) == cycle[c].stream # "" /\ cycle[c].wire = ""

\* the decoded text of the bytes of cycle c's stream delivered so far
DeliveredText(c) ==
  DecodeBytes(SubSeq(cycle[c].stream, 1,
                     Len(cycle[c].stream) - Len(cycle[c].wire))).text

\* the locals of chatWithStream before the first read
FreshAcc ==
  [eventType |-> "", status |-> "thinking", steps |-> <<>>,
   toolCalls |-> <<>>, finalAnswer |-> "", classified |-> <<>>,
   frames |-> <<>>, thrown |-> ""]

\* the frames interpreted when the text arrives in one chunk
OneChunkFrames(text) ==
  ProcessLines(FreshAcc, Front(SplitLines(text))).frames

\* C1: framing determinism - once a stream has been delivered, in whatever
\* chunks, the frames interpreted are those interpreted when the whole text
\* is delivered as one chunk.
FramingDeterminism ==
  Delivered(1) => cycle[1].frames = OneChunkFrames(DeliveredText(1))

\* the type declared by the last event: line among the first n classified
\* lines of cycle c ("" when there is none)
DeclaredType(c, n) ==
  LET ev == {i \in 1..n : StartsWith(cycle[c].classified[i].line, "event:")}
  IN IF ev = {} THEN ""
     ELSE Trim(Slice(cycle[c].classified[
                 CHOOSE i \in ev : \A j \in ev : j <= i].line, 6))

\* C2: the current event type is retained until overwritten - every data:
\* line is interpreted with the type of the most recent event: line seen
\* earlier in the same stream, in the same read or in an earlier one.
EventTypeRetained ==
  \A i \in 1..Len(cycle[1].classified) :
    StartsWith(cycle[1].classified[i].line, "data:")
      => cycle[1].classified[i].eventType = DeclaredType(1, i)

\* the lines classified by cycle c, as texts
ClassifiedLines(c) ==
  [i \in 1..Len(cycle[c].classified) |-> cycle[c].classified[i].line]

\* the lines of a text: the text between line breaks, and the text after the
\* last line break when there is some
TextLines(text) ==
  IF Last(SplitLines(text)) = "" THEN Front(SplitLines(text))
  ELSE SplitLines(text)

\* C3 as stated: once the stream has been delivered and the read loop has
\* ended, every line of its text has been classified exactly once, in
\* transmission order.
EveryLineClassifiedOnce ==
  Delivered(1) /\ cycle[1].pc # "read"
    => ClassifiedLines(1) = TextLines(DeliveredText(1))

\* C3: no loss or duplication across chunk boundaries - the lines classified
\* are, in transmission order and each exactly once, the lines ended by a
\* line break in the text delivered so far (all of them unless an exception
\* ended the read loop), whole lines only, also when a line arrived in
\* several chunks.
LinesClassifiedOnce ==
  cycle[1].stream # "" =>
    LET whole == Front(SplitLines(DeliveredText(1)))
        n == Len(cycle[1].classified)
    IN /\ n <= Len(whole)
       /\ ClassifiedLines(1) = SubSeq(whole, 1, n)
       /\ cycle[1].pc # "caught" => n = Len(whole)

\* a line that arrived in more than one chunk has been classified and the
\* whole stream has been read
LinesClassifiedOnceWitness ==
  /\ Delivered(1)
  /\ cycle[1].reassembled
  /\ cycle[1].pc = "returned"
  /\ Len(cycle[1].classified) = Len(Front(SplitLines(DeliveredText(1))))
  /\ Len(cycle[1].classified) >= 6

\* ------------------------------------------------------------------------
\* Properties of the session
\* ------------------------------------------------------------------------
\* C4: sequence monotonicity - the step at position i of the Step Log has
\* number i (positions counted from 1), in every reachable state.
StepsSequential ==
  \A i \in 1..Len(currentSteps) : currentSteps[i].step = i

\* the steps of cycle c's frames
StepFrames(c) ==
  {i \in 1..Len(cycle[c].frames) :
     cycle[c].frames[i].eventType \in {"thinking", "tool_call", "tool_result"}}

\* two send cycles in flight together have appended to the same Step Log,
\* and the later step is numbered after the earlier one
StepsSequentialWitness ==
  /\ Len(currentSteps) = 2
  /\ currentSteps[2].step = 2
  /\ Cardinality(StepFrames(1)) = 1
  /\ Cardinality(StepFrames(2)) = 1

\* the frames cycle c interprets in the step
NewFrames(c) ==
  SubSeq(cycle'[c].frames, Len(cycle[c].frames) + 1, Len(cycle'[c].frames))

InterpretsEvent(ev) ==
  \E c \in Cycles : \E i \in 1..Len(NewFrames(c)) :
    NewFrames(c)[i].eventType = ev

\* the catch block of handleSend runs in the step
CatchRuns == \E c \in Cycles : cycle[c].pc # "caught" /\ cycle'[c].pc = "caught"

\* an upload completes in the step
UploadEnds ==
  \E u \in Uploads : upload[u] = "uploading" /\ upload'[u] = "finished"

Becomes(status) == agentStatus # status /\ agentStatus' = status

\* C5 as stated: the status becomes done only by interpreting an answer
\* event and error only by interpreting an error event.
TerminalOnlyByEvent ==
  [][/\ Becomes("done") => InterpretsEvent("answer")
     /\ Becomes("error") => InterpretsEvent("error")]_vars

\* C5: the status becomes done only in a step that interprets an answer
\* event or completes an upload, and error only in a step that interprets an
\* error event, runs the catch block of handleSend or completes an upload.
TerminalOnlyByEventCatchOrUpload ==
  [][/\ Becomes("done") => InterpretsEvent("answer") \/ UploadEnds
     /\ Becomes("error") =>
          InterpretsEvent("error") \/ CatchRuns \/ UploadEnds]_vars

\* a stream set the status to done after tool results were interpreted, and
\* an upload has completed too
TerminalOnlyByEventCatchOrUploadWitness ==
  /\ agentStatus = "done"
  /\ \E c \in Cycles :
       /\ cycle[c].pc = "read"
       /\ Len(cycle[c].toolCalls) > 0
       /\ cycle[c].finalAnswer # ""
  /\ \E u \in Uploads : upload[u] = "finished"

\* C6: terminal statuses are sticky within a turn - a status of done or
\* error changes only when a new send cycle starts.
TerminalSticky ==
  [][(agentStatus \in {"done", "error"} /\ agentStatus' # agentStatus)
       => (nSends' = nSends + 1)]_vars

\* C7: no terminal event implies no assistant message - when the stream has
\* ended normally and no answer or error frame was interpreted, the store
\* holds no assistant message and the status is the one set by the last
\* thinking or tool_call frame (thinking when there was none).
LastProgressStatus(frames) ==
  LET idx == {i \in 1..Len(frames) :
                frames[i].eventType \in {"thinking", "tool_call"}}
  IN IF idx = {} THEN "thinking"
     ELSE IF frames[CHOOSE i \in idx : \A j \in idx : j <= i].eventType
               = "thinking"
          THEN "thinking" ELSE "executing"

NoTerminalFrame(frames) ==
  \A i \in 1..Len(frames) : frames[i].eventType \notin {"answer", "error"}

NoTerminalNoMessage ==
  cycle[1].pc = "returned" /\ NoTerminalFrame(cycle[1].frames)
    => /\ \A i \in 1..Len(messages) : messages[i].role = "user"
       /\ agentStatus = LastProgressStatus(cycle[1].frames)

\* a stream of a tool call and its result has ended
NoTerminalNoMessageWitness ==
  /\ cycle[1].pc = "returned"
  /\ NoTerminalFrame(cycle[1].frames)
  /\ Len(cycle[1].frames) = 2
  /\ cycle[1].frames[1].eventType = "tool_call"
  /\ agentStatus = "executing"

\* C8: no concurrent send cycles - at most one send cycle is in flight.
OneCycleInFlight ==
  Cardinality({c \in Cycles : InFlight(c)}) <= 1

\* C9: admission control - a call of handleSend made while the loading flag
\* is set, or with an input that is empty after trimming, changes neither
\* the messages, the Step Log, the status, the loading flag nor the input,
\* and starts no cycle (no request).
RefusedSendIsNoOp ==
  [][((nSends' # nSends \/ (~refused /\ refused'))
        /\ (isLoading \/ Trim(inputText) = ""))
       => UNCHANGED <<messages, currentSteps, agentStatus, isLoading,
                      inputText, nSends, cycle>>]_vars

\* handleSend was called with text in the input while loading
RefusedSendIsNoOpWitness ==
  /\ refused
  /\ isLoading
  /\ Trim(inputText) # ""

\* C10: augmentation isolation - when the lookup fails, the cycle ends as if
\* it had not been attempted: one assistant message with the final answer
\* and the tool calls, no matches, no failure notice, the status unchanged.
FailedLookupIsolated ==
  [][\A c \in Cycles :
       (/\ cycle[c].pc = "lookup"
        /\ cycle'[c].pc # "lookup"
        /\ cycle'[c].lookup \notin {"results", "empty", "missing"})
       => /\ cycle'[c].pc = "returned"
          /\ Len(messages') = Len(messages) + 1
          /\ messages'[Len(messages')].role = "assistant"
          /\ messages'[Len(messages')].content = cycle[c].finalAnswer
          /\ messages'[Len(messages')].toolCalls =
               (IF cycle[c].toolCalls = <<>> THEN Absent
                ELSE Present(cycle[c].toolCalls))
          /\ messages'[Len(messages')].performances = Absent
          /\ SubSeq(messages', 1, Len(messages)) = messages
          /\ agentStatus' = agentStatus
          /\ currentSteps' = currentSteps]_vars

\* a cycle with tool calls whose lookup was rejected has returned
FailedLookupIsolatedWitness ==
  \E c \in Cycles :
    /\ cycle[c].pc = "returned"
    /\ cycle[c].lookup = "reject"
    /\ Len(cycle[c].toolCalls) > 0

\* ------------------------------------------------------------------------
\* Properties of the end of a send cycle
\* ------------------------------------------------------------------------
\* the event type of the last answer or error frame interpreted ("" if none)
LastTerminalEvent(frames) ==
  LET idx == {i \in 1..Len(frames) :
                frames[i].eventType \in {"answer", "error"}}
  IN IF idx = {} THEN ""
     ELSE frames[CHOOSE i \in idx : \A j \in idx : j <= i].eventType

AnswerInterpreted(frames) ==
  \E i \in 1..Len(frames) : frames[i].eventType = "answer"

HasTrigger(text) ==
  Includes(text, KeywordPerformance) \/ Includes(text, KeywordContract)

\* C11: augmentation trigger - a cycle issues at most one lookup, with the
\* user's query; once the stream has ended normally a lookup has been issued
\* exactly when an answer event was interpreted and the final text contains
\* a trigger substring; a cycle whose final text was synthesized from an
\* error event issues none.
LookupOnlyAfterAnswer ==
  /\ cycle[1].lookups <= 1
  /\ cycle[1].lookups > 0 => cycle[1].lookupQuery = cycle[1].query
  /\ cycle[1].pc \in {"lookup", "returned"} =>
       (cycle[1].lookups > 0 <=>
          (AnswerInterpreted(cycle[1].frames)
             /\ HasTrigger(cycle[1].finalAnswer)))
  /\ LastTerminalEvent(cycle[1].frames) = "error" => cycle[1].lookups = 0

\* the classified data: lines of cycle c whose payload is not JSON
UnparseableLines(c) ==
  {i \in 1..Len(cycle[c].classified) :
     /\ StartsWith(cycle[c].classified[i].line, "data:")
     /\ JSONParse(Trim(Slice(cycle[c].classified[i].line, 5))).kind = "error"}

\* the request of cycle c failed before any byte was read
RequestFailed(c) == cycle[c].pc = "caught" /\ cycle[c].stream = ""

\* C12: fatal errors end the turn uniformly - when the request failed or a
\* data: line could not be parsed, the cycle has ended in the catch block:
\* the unparseable line is the last line classified, the store holds exactly
\* one assistant message, the failure notice with the cause text, and the
\* status is error.
FatalErrorEndsTurn ==
  (RequestFailed(1) \/ UnparseableLines(1) # {}) =>
    /\ cycle[1].pc = "caught"
    /\ UnparseableLines(1) \subseteq {Len(cycle[1].classified)}
    /\ UnparseableLines(1) # {} => cycle[1].caught = SyntaxErrorText
    /\ RequestFailed(1) =>
         /\ cycle[1].caught \in
              {RequestFailedText, NoBodyText, NetworkErrorText, ""}
         /\ cycle[1].frames = <<>>
    /\ Len(messages) = 2
    /\ messages[1].role = "user"
    /\ messages[2].role = "assistant"
    /\ messages[2].content =
         SendFailedPrefix \o (IF cycle[1].caught = "" THEN UnknownErrorText
                                                      ELSE cycle[1].caught)
    /\ agentStatus = "error"

\* a stream was aborted at an unparseable data: line after a frame of it had
\* been interpreted
FatalErrorEndsTurnWitness ==
  /\ UnparseableLines(1) # {}
  /\ cycle[1].pc = "caught"
  /\ Len(cycle[1].frames) = 1
  /\ cycle[1].wire = ""

\* C13: errors are fatal to the turn only - the step that ends a send cycle
\* (the stream ended normally, the request or a read failed, a payload could
\* not be parsed, the lookup completed) sets the loading flag to false, and
\* the test of handleSend then lets every non-empty input through.
CycleEndReleasesLoading ==
  [][\A c \in Cycles :
       (InFlight(c) /\ cycle'[c].pc \in {"returned", "caught"})
         => /\ isLoading' = FALSE
            /\ \A t \in Inputs :
                 Trim(t) # "" => ~SendRefused(Trim(t), isLoading')]_vars

\* a cycle ended by a decode error, and the user has typed a new query
CycleEndReleasesLoadingWitness ==
  /\ cycle[1].pc = "caught"
  /\ cycle[1].caught = SyntaxErrorText
  /\ ~isLoading
  /\ Trim(inputText) # ""
  /\ ~SendRefused(Trim(inputText), isLoading)

\* ------------------------------------------------------------------------
\* Properties of the session state across send cycles
\* ------------------------------------------------------------------------
\* a call of handleSend is accepted in the step
SendAccepted == nSends' = nSends + 1

\* C14: start of a send cycle - right after an accepted handleSend, whatever
\* the status was, the user message is the last message of the store, the
\* status is thinking, the Step Log is empty and the loading flag is set,
\* and the new cycle has not interpreted any frame.
SendStartsCycle ==
  [][SendAccepted =>
       /\ Len(messages') = Len(messages) + 1
       /\ SubSeq(messages', 1, Len(messages)) = messages
       /\ messages'[Len(messages')].role = "user"
       /\ messages'[Len(messages')].content = Trim(inputText)
       /\ agentStatus' = "thinking"
       /\ currentSteps' = <<>>
       /\ isLoading' = TRUE
       /\ cycle'[nSends'].pc = "fetch"
       /\ cycle'[nSends'].frames = <<>>]_vars

\* a second cycle has just started after the first one ended in the catch
\* block, which had set the status to error
SendStartsCycleWitness ==
  /\ nSends = 2
  /\ cycle[2].pc = "fetch"
  /\ cycle[1].pc = "caught"
  /\ nUploads = 0
  /\ agentStatus = "thinking"
  /\ currentSteps = <<>>

\* cycle c has run to its end
Completed(c) == cycle[c].pc \in {"returned", "caught"}

\* C15 as stated: once a send cycle has completed and the loading flag is
\* false again, the status is idle.
IdleRestoredAfterTurn ==
  \A c \in Cycles : (Completed(c) /\ ~isLoading) => agentStatus = "idle"

\* C15: once a send cycle has completed and the loading flag is false again,
\* the status is not idle but one of thinking, executing, done and error;
\* idle is the status only before the first send or upload.
IdleOnlyInitially ==
  /\ \A c \in Cycles :
       (Completed(c) /\ ~isLoading)
         => agentStatus \in {"thinking", "executing", "done", "error"}
  /\ agentStatus = "idle" <=> (nSends = 0 /\ nUploads = 0)

\* a cycle has returned after an answer and another one has ended in the
\* catch block; the interface is ready for input
IdleOnlyInitiallyWitness ==
  /\ ~isLoading
  /\ \E c \in Cycles : cycle[c].pc = "returned" /\ cycle[c].finalAnswer # ""
  /\ \E c \in Cycles : cycle[c].pc = "caught"
  /\ \A c \in Cycles : ~InFlight(c)
  /\ \A u \in Uploads : upload[u] # "uploading"

\* p is q or q cut short at the end
IsPrefix(p, q) == Len(p) <= Len(q) /\ SubSeq(q, 1, Len(p)) = p

TraceCleared ==
  /\ currentSteps' = <<>>
  /\ UNCHANGED <<messages, agentStatus, isLoading, inputText, nSends, cycle,
                 nUploads, upload>>

\* a send cycle interprets frames in the step
FramesInterpreted ==
  \E c \in Cycles :
    cycle[c].pc = "read" /\ Len(cycle'[c].frames) > Len(cycle[c].frames)

TerminalText(frames) ==
  LET idx == {i \in 1..Len(frames) :
                frames[i].eventType \in {"answer", "error"}}
      last == frames[CHOOSE i \in idx : \A j \in idx : j <= i]
      data == JSONParse(last.payload)
  IN IF last.eventType = "answer" THEN Get(data, "answer")
     ELSE ExecFailedPrefix \o Str(Get(data, "error"))

\* C17: terminal event yields the assistant turn - a cycle that interpreted
\* an answer or error frame and returned without a fatal abort has appended
\* exactly one assistant message, after its user message, whose content is
\* the final text: the answer text, also when it is empty, or the failure
\* template with the error text.
TerminalEventYieldsMessage ==
  (cycle[1].pc = "returned" /\ LastTerminalEvent(cycle[1].frames) # "") =>
    /\ Len(messages) = 2
    /\ messages[1].role = "user"
    /\ messages[2].role = "assistant"
    /\ messages[2].content = cycle[1].finalAnswer
    /\ messages[2].content = TerminalText(cycle[1].frames)

\* ------------------------------------------------------------------------
\* Properties of the Conversation Store
\* ------------------------------------------------------------------------
\* C18: sealed messages are immutable - every step of a send cycle or an
\* upload leaves each message of the store as it is, at its position; the
\* list changes only by appending at the end.
MessagesAppendOnly ==
  [][IsPrefix(messages, messages')]_vars

\* two send cycles and an upload have each appended their messages, the
\* first assistant message carrying tool calls and matches
MessagesAppendOnlyWitness ==
  /\ Len(messages) >= 6
  /\ \E i \in 1..(Len(messages) - 1) :
       /\ messages[i].role = "assistant"
       /\ messages[i].toolCalls.present
       /\ messages[i].performances.present

\* the greatest index of an assistant message, 0 when there is none
LastAssistantIndex(msgs) ==
  LET idx == {i \in 1..Len(msgs) : msgs[i].role = "assistant"}
  IN IF idx = {} THEN 0 ELSE CHOOSE i \in idx : \A j \in idx : j <= i

\* C19: updateLastAssistantMessage merges the updates into the assistant
\* message with the greatest index and leaves every other message as it is;
\* a store without an assistant message is left unchanged; no user message
\* is modified.
UpdateMergesIntoLastAssistant ==
  [][\E u \in Updates :
       LET i == LastAssistantIndex(messages) IN
       /\ Len(messages') = Len(messages)
       /\ i = 0 => messages' = messages
       /\ \A k \in 1..Len(messages) :
            IF k = i
            THEN \A f \in DOMAIN messages[k] :
                   messages'[k][f] =
                     (IF f \in DOMAIN u THEN u[f] ELSE messages[k][f])
            ELSE messages'[k] = messages[k]
       /\ \A k \in 1..Len(messages) :
            messages[k].role = "user" => messages'[k] = messages[k]]_vars

\* the second of two assistant messages was updated; a user message follows
UpdateMergesIntoLastAssistantWitness ==
  /\ Len(messages) = 3
  /\ messages[1].role = "assistant" /\ messages[1].content # "c"
  /\ messages[2].role = "assistant" /\ messages[2].content = "c"
  /\ messages[2].performances.present
  /\ messages[3].role = "user"

\* C20: message ids are unique - no two messages of the store have the same
\* id, whatever the sends and uploads and the readings of the clock, also
\* when two messages of the same role are appended at the same reading.
MessageIdsUnique ==
  \A i, j \in 1..Len(messages) :
    i # j => messages[i].id # messages[j].id

\* ------------------------------------------------------------------------
\* Properties of the lookup, the interpreter's table and the loading flag
\* ------------------------------------------------------------------------
\* C21: augmentation ordering - while the lookup of a cycle is pending, the
\* read loop of that cycle has finished, the loading flag is (still) true and
\* no other send cycle is in flight.
LookupUnderLoading ==
  \A c \in Cycles :
    cycle[c].pc = "lookup" =>
      /\ cycle[c].wire = ""
      /\ isLoading
      /\ \A d \in Cycles \ {c} : ~InFlight(d)

IsStepFrame(f) == f.eventType \in {"thinking", "tool_call", "tool_result"}

\* the record the event table prescribes for step frame f, numbered n
StepOf(f, n) ==
  LET data == JSONParse(f.payload) IN
  CASE f.eventType = "thinking" ->
         StepRecord(n, "thinking", Get(data, "thought"),
                    Undef, Undef, Undef, Undef)
    [] f.eventType = "tool_call" ->
         StepRecord(n, "executing", Undef, Get(data, "tool"),
                    Get(data, "params"), Undef, Undef)
    [] OTHER ->
         StepRecord(n, IF Get(data, "success") = "true" THEN "done"
                                                        ELSE "error",
                    Undef, Get(data, "tool"), Undef, Get(data, "result"),
                    Get(data, "error"))

\* one record per thinking, tool_call and tool_result frame, in order
StepProjection(frames) ==
  LET steps == SelectSeq(frames, IsStepFrame)
  IN [n \in 1..Len(steps) |-> StepOf(steps[n], n)]

\* C22: the Step Log is the in-order projection of the frame sequence -
\* while a stream is read and after it, the log holds one record for each
\* thinking, tool_call and tool_result frame interpreted so far, in arrival
\* order and with the state of the frame's type (done or error by the
\* success flag), and none for answer, error and unknown frames.
StepLogProjectsFrames ==
  (cycle[1].stream # "" /\ cycle[1].pc \in {"read", "lookup", "returned"})
    => currentSteps = StepProjection(cycle[1].frames)

\* a thinking frame, an answer and a late tool_call have been interpreted:
\* three frames, two records
StepLogProjectsFramesWitness ==
  /\ cycle[1].pc = "returned"
  /\ Len(cycle[1].frames) = 3
  /\ cycle[1].frames[2].eventType = "answer"
  /\ Len(currentSteps) = 2
  /\ currentSteps[1].state = "thinking"
  /\ currentSteps[2].state = "executing"

\* the status the event table gives after frames, starting from status
StatusAfter(status, frames) ==
  LET idx == {i \in 1..Len(frames) :
                frames[i].eventType \in
                  {"thinking", "tool_call", "answer", "error"}}
      last == frames[CHOOSE i \in idx : \A j \in idx : j <= i].eventType
  IN IF idx = {} THEN status
     ELSE CASE last = "thinking" -> "thinking"
            [] last = "tool_call" -> "executing"
            [] last = "answer" -> "done"
            [] OTHER -> "error"

\* C23: status follows the event table - a read that interprets frames and
\* does not abort leaves the status of the last thinking (thinking),
\* tool_call (executing), answer (done) or error (error) frame among them;
\* tool_result and unknown frames leave the status as it was.
StatusFollowsEventTable ==
  [][(cycle[1].pc = "read" /\ cycle'[1].pc = "read")
       => agentStatus' = StatusAfter(agentStatus, NewFrames(1))]_vars

\* a failed tool_result has been interpreted after a tool_call and the
\* status is still executing
StatusFollowsEventTableWitness ==
  /\ cycle[1].pc = "read"
  /\ Len(cycle[1].frames) = 2
  /\ cycle[1].frames[2].eventType = "tool_result"
  /\ Len(cycle[1].toolCalls) = 1
  /\ agentStatus = "executing"

KnownEvents == {"thinking", "tool_call", "tool_result", "answer", "error"}

\* C24: unknown or undeclared event types are ignored - a read whose frames
\* all have a type outside the five known ones (or the empty type of a data:
\* line without event: line), all payloads being well-formed, leaves the
\* status, the Step Log, the tool-call list and the final answer as they
\* were and does not end the read loop.
UnknownFramesIgnored ==
  [][(/\ cycle[1].pc = "read"
      /\ NewFrames(1) # <<>>
      /\ \A i \in 1..Len(NewFrames(1)) :
           NewFrames(1)[i].eventType \notin KnownEvents
      /\ UnparseableLines(1)' = {})
       => /\ cycle'[1].pc = "read"
          /\ agentStatus' = agentStatus
          /\ currentSteps' = currentSteps
          /\ cycle'[1].toolCalls = cycle[1].toolCalls
          /\ cycle'[1].finalAnswer = cycle[1].finalAnswer
          /\ messages' = messages]_vars

\* a payload without event: line and a ping frame were ignored and the
\* thinking frame after them was interpreted
UnknownFramesIgnoredWitness ==
  /\ cycle[1].pc = "returned"
  /\ Len(cycle[1].frames) = 3
  /\ cycle[1].frames[1].eventType = ""
  /\ cycle[1].frames[2].eventType = "ping"
  /\ cycle[1].frames[3].eventType = "thinking"
  /\ Len(currentSteps) = 1
  /\ agentStatus = "thinking"

IsToolResult(f) == f.eventType = "tool_result"

\* one summary per tool_result frame, in order; absent when there is none
SummariesOf(frames) ==
  LET res == SelectSeq(frames, IsToolResult)
  IN IF res = <<>> THEN Absent
     ELSE Present([n \in 1..Len(res) |->
            [tool |-> Get(JSONParse(res[n].payload), "tool"),
             params |-> "{}",
             success |-> Get(JSONParse(res[n].payload), "success")]])

LoadingCoversInFlight ==
  ((\E c \in Cycles : InFlight(c)) \/ (\E u \in Uploads : upload[u] = "uploading"))
    => isLoading

\* the lines of text that are ended by a line break
WholeLines(text) == SubSeq(SplitLines(text), 1, Len(SplitLines(text)) - 1)

\* C27: end-of-stream residue is dropped - when a stream has ended with text
\* left in the buffer (a last line without line break), that text has not
\* been classified: the lines classified are the lines ended by a line
\* break, there is one frame per classified data: line, and the status and
\* the messages are those of these frames alone - without an answer or
\* error frame among them, no assistant message.
ResidueDropped ==
  (cycle[1].pc = "returned" /\ cycle[1].buffer # "") =>
    /\ cycle[1].buffer = Last(SplitLines(DeliveredText(1)))
    /\ ClassifiedLines(1) = WholeLines(DeliveredText(1))
    /\ Len(cycle[1].frames) =
         Cardinality({i \in 1..Len(cycle[1].classified) :
                        StartsWith(cycle[1].classified[i].line, "data:")})
    /\ agentStatus = StatusAfter("thinking", cycle[1].frames)
    /\ LastTerminalEvent(cycle[1].frames) = ""
         => \A i \in 1..Len(messages) : messages[i].role = "user"

\* a stream ended with its answer payload unterminated: no frame, the
\* status of the start of the cycle, only the user message
ResidueDroppedWitness ==
  /\ cycle[1].pc = "returned"
  /\ cycle[1].buffer = "data: " \o AnswerText
  /\ cycle[1].frames = <<>>
  /\ agentStatus = "thinking"
  /\ Len(messages) = 1


\* C28: a decode error overrides an earlier terminal event - when a data:
\* line failed to parse after an answer or error frame of the same stream
\* was interpreted, the cycle has ended in the catch block: the one
\* assistant message of the cycle is the failure notice, without tool-call
\* summaries or performances, no lookup was issued for the recorded answer,
\* the status is error, and the Step Log still holds the records of the
\* frames interpreted before the failure.
DecodeErrorOverridesTerminal ==
  (UnparseableLines(1) # {} /\ LastTerminalEvent(cycle[1].frames) # "") =>
    /\ cycle[1].pc = "caught"
    /\ Len(messages) = 2
    /\ messages[1].role = "user"
    /\ messages[2].role = "assistant"
    /\ messages[2].content = SendFailedPrefix \o SyntaxErrorText
    /\ messages[2].toolCalls = Absent
    /\ messages[2].performances = Absent
    /\ cycle[1].lookups = 0
    /\ agentStatus = "error"
    /\ currentSteps = StepProjection(cycle[1].frames)

\* a tool result and an answer were interpreted, status done was overridden
\* by the unparseable line after them: the answer and the summary recorded
\* by the cycle appear in no message, the tool result's record remains
DecodeErrorOverridesTerminalWitness ==
  /\ cycle[1].pc = "caught"
  /\ cycle[1].stream = StreamAnswerThenMalformed
  /\ UnparseableLines(1) # {}
  /\ Len(cycle[1].frames) = 2
  /\ cycle[1].frames[2].eventType = "answer"
  /\ cycle[1].finalAnswer = "Hi"
  /\ Len(cycle[1].toolCalls) = 1
  /\ Len(currentSteps) = 1
  /\ agentStatus = "error"
  /\ Len(messages) = 2
  /\ messages[2].toolCalls = Absent


\* the same after an error frame: the failure text of the error event never
\* reaches a message, the notice of the unparseable line does
DecodeErrorOverridesErrorEvent ==
  /\ cycle[1].stream = StreamErrorThenMalformed
  /\ UnparseableLines(1) # {}
  /\ LastTerminalEvent(cycle[1].frames) = "error"
  /\ messages[Len(messages)].content = SendFailedPrefix \o SyntaxErrorText

====
